---- MODULE Spec2Model ----
(***************************************************************************)
(* Model of the two interaction-file printers of maruel/genai:            *)
(*   internal/print_bodies.py         (request and response bodies)       *)
(*   internal/print_response_body.py  (response bodies only)              *)
(*                                                                         *)
(* A Python str is a sequence of one-character strings.  json.loads and    *)
(* json.dumps(indent=2) are modelled for the JSON subset made of objects,  *)
(* arrays, strings without escapes and integers; every body the model      *)
(* feeds to them is written over an alphabet on which that subset and      *)
(* Python's json agree (no '.', no exponent, no backslash, no literal      *)
(* names true/false/null/NaN/Infinity).                                    *)
(***************************************************************************)
EXTENDS Integers, Sequences, FiniteSets, TLC

(***************************************************************************)
(* str methods                                                             *)
(***************************************************************************)

\* str.startswith(prefix)
startswith(s, prefix) ==
    /\ Len(s) >= Len(prefix)
    /\ SubSeq(s, 1, Len(prefix)) = prefix

\* the characters str.strip() removes (those of them the alphabet has)
Whitespace == {" ", "\t", "\r", "\n"}

RECURSIVE lstrip(_)
lstrip(s) ==
    IF s # <<>> /\ Head(s) \in Whitespace THEN lstrip(Tail(s)) ELSE s

RECURSIVE rstrip(_)
rstrip(s) ==
    IF s # <<>> /\ s[Len(s)] \in Whitespace
    THEN rstrip(SubSeq(s, 1, Len(s) - 1))
    ELSE s

\* str.strip()
strip(s) == rstrip(lstrip(s))

\* str.split("\n"): cur is the piece being read, acc the pieces already cut
RECURSIVE splitFrom(_, _, _)
splitFrom(s, cur, acc) ==
    IF s = <<>> THEN Append(acc, cur)
    ELSE IF Head(s) = "\n" THEN splitFrom(Tail(s), <<>>, Append(acc, cur))
    ELSE splitFrom(Tail(s), Append(cur, Head(s)), acc)

split(s) == splitFrom(s, <<>>, <<>>)

\* line[4:]
slice4(line) == SubSeq(line, 5, Len(line))

\* line[5:]
slice5(line) == SubSeq(line, 6, Len(line))

(***************************************************************************)
(* json.loads: a value is a node [t, s, kids]; t is "num", "str", "arr" or *)
(* "obj"; s the characters of a number or string; kids the elements of an  *)
(* array, or key, value, key, value, ... of an object in insertion order.  *)
(* A parse step returns [ok, v, pos], pos being the next unread index.     *)
(***************************************************************************)
Digits == {"0", "1", "2", "3", "4", "5", "6", "7", "8", "9"}

\* the whitespace json.decoder skips (WHITESPACE = [ \t\n\r]*)
JsonWs == {" ", "\t", "\n", "\r"}

Node(t, s, kids) == [t |-> t, s |-> s, kids |-> kids]

Fail == [ok |-> FALSE, v |-> Node("err", <<>>, <<>>), pos |-> 0]

Ok(v, pos) == [ok |-> TRUE, v |-> v, pos |-> pos]

RECURSIVE skipWs(_, _)
skipWs(s, p) ==
    IF p <= Len(s) /\ s[p] \in JsonWs THEN skipWs(s, p + 1) ELSE p

\* index after the last digit of the run starting at p
RECURSIVE digitsEnd(_, _)
digitsEnd(s, p) ==
    IF p <= Len(s) /\ s[p] \in Digits THEN digitsEnd(s, p + 1) ELSE p

\* NUMBER_RE = (-?(?:0|[1-9][0-9]*)) without fraction or exponent
parseNumber(s, p) ==
    LET q == IF s[p] = "-" THEN p + 1 ELSE p
        e == IF q <= Len(s) /\ s[q] = "0" THEN q + 1 ELSE digitsEnd(s, q)
    IN  IF e = q THEN Fail
        ELSE Ok(Node("num", SubSeq(s, p, e - 1), <<>>), e)

\* index of the closing quote of the string whose content starts at p, 0 if none
RECURSIVE closingQuote(_, _)
closingQuote(s, p) ==
    IF p > Len(s) THEN 0
    ELSE IF s[p] = "\"" THEN p
    ELSE closingQuote(s, p + 1)

\* s[p] is the opening quote
parseString(s, p) ==
    LET e == closingQuote(s, p + 1)
    IN  IF e = 0 THEN Fail
        ELSE Ok(Node("str", SubSeq(s, p + 1, e - 1), <<>>), e + 1)

\* dict[key] = value: a key already present keeps its place and gets the value
RECURSIVE dictSet(_, _, _)
dictSet(kids, key, value) ==
    IF kids = <<>> THEN <<key, value>>
    ELSE IF kids[1] = key THEN <<key, value>> \o SubSeq(kids, 3, Len(kids))
    ELSE <<kids[1], kids[2]>> \o dictSet(SubSeq(kids, 3, Len(kids)), key, value)

RECURSIVE parseValue(_, _)
RECURSIVE parseElements(_, _, _)
RECURSIVE parseMembers(_, _, _)

\* JSONArray after '[': p is at the start of the next element
parseElements(s, p, acc) ==
    LET r == parseValue(s, p)
    IN  IF ~r.ok THEN Fail
        ELSE LET q == skipWs(s, r.pos)
                 got == Append(acc, r.v)
             IN  IF q > Len(s) THEN Fail
                 ELSE IF s[q] = "]" THEN Ok(Node("arr", <<>>, got), q + 1)
                 ELSE IF s[q] = "," THEN parseElements(s, skipWs(s, q + 1), got)
                 ELSE Fail

\* JSONObject after '{': p is at the opening quote of the next key
parseMembers(s, p, acc) ==
    IF p > Len(s) \/ s[p] # "\"" THEN Fail
    ELSE LET k == parseString(s, p)
         IN  IF ~k.ok THEN Fail
             ELSE LET c == skipWs(s, k.pos)
                  IN  IF c > Len(s) \/ s[c] # ":" THEN Fail
                      ELSE LET r == parseValue(s, skipWs(s, c + 1))
                           IN  IF ~r.ok THEN Fail
                               ELSE LET q == skipWs(s, r.pos)
                                        got == dictSet(acc, k.v, r.v)
                                    IN  IF q > Len(s) THEN Fail
                                        ELSE IF s[q] = "}"
                                        THEN Ok(Node("obj", <<>>, got), q + 1)
                                        ELSE IF s[q] = ","
                                        THEN parseMembers(s, skipWs(s, q + 1), got)
                                        ELSE Fail

\* scanner.scan_once(s, p)
parseValue(s, p) ==
    IF p > Len(s) THEN Fail
    ELSE IF s[p] = "\"" THEN parseString(s, p)
    ELSE IF s[p] = "{" THEN
        LET q == skipWs(s, p + 1)
        IN  IF q <= Len(s) /\ s[q] = "}" THEN Ok(Node("obj", <<>>, <<>>), q + 1)
            ELSE parseMembers(s, q, <<>>)
    ELSE IF s[p] = "[" THEN
        LET q == skipWs(s, p + 1)
        IN  IF q <= Len(s) /\ s[q] = "]" THEN Ok(Node("arr", <<>>, <<>>), q + 1)
            ELSE parseElements(s, q, <<>>)
    ELSE IF s[p] \in Digits \cup {"-"} THEN parseNumber(s, p)
    ELSE Fail

\* json.loads(s): leading whitespace skipped, one value, only whitespace after
\* it ("Extra data" otherwise); ok = FALSE stands for the ValueError
json_loads(s) ==
    LET r == parseValue(s, skipWs(s, 1))
    IN  IF r.ok /\ skipWs(s, r.pos) = Len(s) + 1 THEN r ELSE Fail

(***************************************************************************)
(* json.dumps(d, indent=2)                                                 *)
(***************************************************************************)
Indent == 2

RECURSIVE spaces(_)
spaces(n) == IF n = 0 THEN <<>> ELSE <<" ">> \o spaces(n - 1)

newline_indent(level) == <<"\n">> \o spaces(Indent * level)

quoted(s) == <<"\"">> \o s \o <<"\"">>

RECURSIVE dumpValue(_, _)
RECURSIVE dumpList(_, _, _)
RECURSIVE dumpDict(_, _, _)

\* _iterencode_list: elements from index k on, one per line at this level
dumpList(kids, k, level) ==
    IF k > Len(kids) THEN <<>>
    ELSE (IF k = 1 THEN <<>> ELSE <<",">>)
         \o newline_indent(level)
         \o dumpValue(kids[k], level)
         \o dumpList(kids, k + 1, level)

\* _iterencode_dict: members from index k on (kids[k] the key, kids[k+1] the value)
dumpDict(kids, k, level) ==
    IF k > Len(kids) THEN <<>>
    ELSE (IF k = 1 THEN <<>> ELSE <<",">>)
         \o newline_indent(level)
         \o quoted(kids[k].s) \o <<":", " ">>
         \o dumpValue(kids[k + 1], level)
         \o dumpDict(kids, k + 2, level)

\* _iterencode
dumpValue(v, level) ==
    IF v.t = "num" THEN v.s
    ELSE IF v.t = "str" THEN quoted(v.s)
    ELSE IF v.t = "arr" THEN
        IF v.kids = <<>> THEN <<"[", "]">>
        ELSE <<"[">> \o dumpList(v.kids, 1, level + 1)
             \o newline_indent(level) \o <<"]">>
    ELSE
        IF v.kids = <<>> THEN <<"{", "}">>
        ELSE <<"{">> \o dumpDict(v.kids, 1, level + 1)
             \o newline_indent(level) \o <<"}">>

json_dumps(d) == dumpValue(d, 0)

(***************************************************************************)
(* The interaction file                                                    *)
(***************************************************************************)
DATA == <<"d", "a", "t", "a", ":">>

EVENT == <<"e", "v", "e", "n", "t", ":">>

\* JSON texts the bodies are built from
ObjA == <<"{", "\"", "a", "\"", ":", "1", "}">>

ObjB == <<"{", "\"", "b", "\"", ":", "2", "}">>

Arr12 == <<"[", "1", ",", "2", "]">>

\* the lines a body of the single-interaction files is made of
Lines ==
    { <<>>,
      DATA,
      DATA \o <<" ">> \o ObjA,
      DATA \o Arr12,
      DATA \o <<" ", "x">>,
      DATA \o <<" ", "\r">>,
      DATA \o DATA \o <<"3">>,
      EVENT \o <<" ", "p">>,
      EVENT \o ObjB,
      ObjA,
      <<"x">>,
      <<" ">> \o DATA \o <<"1">>,
      <<"[", "1", ",">>,
      <<"2", "]">>,
      <<" ", "7", " ">> }

\* most lines of a body
MaxLines == 2

\* most interactions of a file
MaxInteractions == 2

RECURSIVE join(_)
join(lines) ==
    IF Len(lines) = 1 THEN lines[1]
    ELSE lines[1] \o <<"\n">> \o join(Tail(lines))

\* every body of 1..MaxLines lines
Bodies ==
    UNION { { join(ls) : ls \in [1..n -> Lines] } : n \in 1..MaxLines }

\* the bodies of the files with several interactions
SmallBodies ==
    { ObjA,
      <<"x">>,
      DATA \o <<" ">> \o ObjA \o <<"\n">> \o DATA \o <<" ">> \o ObjB \o <<"\n">>,
      EVENT \o <<" ", "p", "\n">> \o DATA \o <<"x", "\n", "\n">> \o DATA \o Arr12 }

\* interaction["request"]: absent, or a mapping with or without a "body" key
Request(present, hasBody, body) ==
    [present |-> present, hasBody |-> hasBody, body |-> body]

NoRequest == Request(FALSE, FALSE, <<>>)

NoBody == Request(TRUE, FALSE, <<>>)

Interaction(request, body) == [request |-> request, response |-> body]

SmallRequests ==
    {NoRequest, NoBody, Request(TRUE, TRUE, <<>>), Request(TRUE, TRUE, ObjA),
     Request(TRUE, TRUE, <<"x">>)}

SmallInteractions ==
    { Interaction(r, b) : r \in SmallRequests \ {NoRequest}, b \in SmallBodies }
    \cup { Interaction(NoRequest, ObjA) }

\* files of one interaction, one of whose bodies ranges over Bodies
RichFiles ==
    { <<Interaction(r, b)>> : r \in {NoRequest, NoBody}, b \in Bodies }
    \cup { <<Interaction(Request(TRUE, TRUE, b), ObjB)>> : b \in Bodies }

\* files of 0..MaxInteractions interactions with small bodies
SmallFiles ==
    UNION { [1..n -> SmallInteractions] : n \in 0..MaxInteractions }

Files == RichFiles \cup SmallFiles

(***************************************************************************)
(* The two programs                                                        *)
(***************************************************************************)
Tools == {"print_bodies", "print_response_body"}

VARIABLES
    tool,     \* which of the two scripts runs
    argc,     \* len(sys.argv)
    data,     \* data["interactions"] of the file named by sys.argv[1]
    opened,   \* the file has been opened
    pc,       \* position in main()
    i,        \* index in data of the interaction the loop is at
    out,      \* the print() calls so far, in order
    ret,      \* main()'s return value, NoRet until it returns
    raised    \* the exception main() ended with, "" if none

vars == <<tool, argc, data, opened, pc, i, out, ret, raised>>

NoRet == 0 - 1

\* one print() call: idx the interaction it belongs to (0 for none), kind
\* what the call prints, text its argument
Printed(idx, kind, text) == [idx |-> idx, kind |-> kind, text |-> text]

UsageText(t) ==
    IF t = "print_bodies" THEN <<"Usage: print_bodies.py <filename>">>
    ELSE <<"Usage: print_response_body.py <filename>">>

RequestLabel == <<"<ESC>[1mRequest:<ESC>[0m">>

ResponseLabel == <<"<ESC>[1mResponse:<ESC>[0m">>

\* print_line printing an empty line when the text does not parse
print_line_swallow(line) ==
    LET r == json_loads(line)
    IN  IF r.ok THEN json_dumps(r.v) ELSE <<>>

\* print_bodies.print_line: the text it prints
print_line(line) ==
    LET r == json_loads(line)
    IN  IF r.ok THEN json_dumps(r.v) ELSE line

\* the try/except of print_response_body.main: the text it prints
try_dumps(line) ==
    LET r == json_loads(line)
    IN  IF r.ok THEN json_dumps(r.v) ELSE line

\* interaction["request"].get("body"): none stands for None
get_body(request) ==
    IF request.hasBody THEN [none |-> FALSE, s |-> request.body]
    ELSE [none |-> TRUE, s |-> <<>>]

\* if req is not None:
truthy_notNone(req) == ~req.none

\* if req:
truthy(req) == ~req.none /\ req.s # <<>>

\* the loop of print_bodies without its test for event:
RECURSIVE pb_lines_noskip(_)
pb_lines_noskip(lines) ==
    IF lines = <<>> THEN <<>>
    ELSE LET line == Head(lines)
             rest == pb_lines_noskip(Tail(lines))
             l == strip(IF startswith(line, DATA) THEN slice5(line) ELSE line)
         IN  IF l # <<>> THEN <<print_line(l)>> \o rest ELSE rest

\* print_bodies: the texts printed by the loop over body.split("\n")
RECURSIVE pb_lines(_)
pb_lines(lines) ==
    IF lines = <<>> THEN <<>>
    ELSE LET line == Head(lines)
             rest == pb_lines(Tail(lines))
         IN  IF startswith(line, EVENT) THEN rest
             ELSE LET l == strip(IF startswith(line, DATA) THEN slice5(line)
                                 ELSE line)
                  IN  IF l # <<>> THEN <<print_line(l)>> \o rest ELSE rest

\* print_bodies: the texts printed for a response body
pb_body(body) ==
    IF startswith(body, DATA) \/ startswith(body, EVENT)
    THEN pb_lines(split(body))
    ELSE <<print_line(body)>>

\* print_response_body: the texts printed by the loop over body.split("\n")
RECURSIVE prb_lines(_)
prb_lines(lines) ==
    IF lines = <<>> THEN <<>>
    ELSE LET line == Head(lines)
             rest == prb_lines(Tail(lines))
             l == strip(IF startswith(line, DATA) THEN slice5(line) ELSE line)
         IN  IF l # <<>> THEN <<try_dumps(l)>> \o rest ELSE rest

\* print_response_body: the texts printed for a response body
prb_body(body) ==
    IF startswith(body, DATA) THEN prb_lines(split(body)) ELSE <<body>>

\* the print() calls of interaction idx for the texts
PrintAll(idx, kind, texts) ==
    [k \in 1..Len(texts) |-> Printed(idx, kind, texts[k])]

Init ==
    /\ tool \in Tools
    /\ argc \in {1, 2}
    /\ data \in Files
    /\ opened = FALSE
    /\ pc = "main"
    /\ i = 0
    /\ out = <<>>
    /\ ret = NoRet
    /\ raised = ""

\* the usage branch returning 0
Usage_ret0 ==
    /\ pc = "main"
    /\ argc < 2
    /\ out' = Append(out, Printed(0, "usage", UsageText(tool)))
    /\ ret' = 0
    /\ pc' = "returned"
    /\ UNCHANGED <<tool, argc, data, opened, i, raised>>

\* if len(sys.argv) < 2: print usage, return 1
Usage ==
    /\ pc = "main"
    /\ argc < 2
    /\ out' = Append(out, Printed(0, "usage", UsageText(tool)))
    /\ ret' = 1
    /\ pc' = "returned"
    /\ UNCHANGED <<tool, argc, data, opened, i, raised>>

\* with open(sys.argv[1]) as f: data = yaml.safe_load(f); the loop starts
Load ==
    /\ pc = "main"
    /\ argc >= 2
    /\ opened' = TRUE
    /\ i' = 1
    /\ pc' = "for"
    /\ UNCHANGED <<tool, argc, data, out, ret, raised>>

\* print_bodies: interaction["request"] of a record without that key
RequestKeyError ==
    /\ pc = "for"
    /\ tool = "print_bodies"
    /\ i <= Len(data)
    /\ ~data[i].request.present
    /\ raised' = "KeyError"
    /\ pc' = "raised"
    /\ UNCHANGED <<tool, argc, data, opened, i, out, ret>>

\* the request body sent through the decoder of response bodies
PrintRequest_decoded ==
    /\ pc = "for"
    /\ tool = "print_bodies"
    /\ i <= Len(data)
    /\ data[i].request.present
    /\ LET req == get_body(data[i].request)
       IN  out' = IF truthy(req)
                  THEN Append(out, Printed(i, "requestLabel", RequestLabel))
                       \o PrintAll(i, "requestBody", pb_body(req.s))
                  ELSE out
    /\ pc' = "response"
    /\ UNCHANGED <<tool, argc, data, opened, i, ret, raised>>

\* the request body printed before its label
PrintRequest_swapped ==
    /\ pc = "for"
    /\ tool = "print_bodies"
    /\ i <= Len(data)
    /\ data[i].request.present
    /\ LET req == get_body(data[i].request)
       IN  out' = IF truthy(req)
                  THEN out \o <<Printed(i, "requestBody", print_line(req.s)),
                                Printed(i, "requestLabel", RequestLabel)>>
                  ELSE out
    /\ pc' = "response"
    /\ UNCHANGED <<tool, argc, data, opened, i, ret, raised>>

\* print_bodies: req = interaction["request"].get("body"); if req: label, print_line
PrintRequest ==
    /\ pc = "for"
    /\ tool = "print_bodies"
    /\ i <= Len(data)
    /\ data[i].request.present
    /\ LET req == get_body(data[i].request)
       IN  out' = IF truthy(req)
                  THEN out \o <<Printed(i, "requestLabel", RequestLabel),
                                Printed(i, "requestBody", print_line(req.s))>>
                  ELSE out
    /\ pc' = "response"
    /\ UNCHANGED <<tool, argc, data, opened, i, ret, raised>>

\* print_bodies: print("\033[1mResponse:\033[0m")
PrintResponseLabel ==
    /\ pc = "response"
    /\ out' = Append(out, Printed(i, "responseLabel", ResponseLabel))
    /\ pc' = "body"
    /\ UNCHANGED <<tool, argc, data, opened, i, ret, raised>>

\* print_bodies: the response body, then the next interaction
PrintResponseBody ==
    /\ pc = "body"
    /\ out' = out \o PrintAll(i, "responseBody", pb_body(data[i].response))
    /\ i' = i + 1
    /\ pc' = "for"
    /\ UNCHANGED <<tool, argc, data, opened, ret, raised>>

\* print_response_body: one iteration of the loop
PrintBody ==
    /\ pc = "for"
    /\ tool = "print_response_body"
    /\ i <= Len(data)
    /\ out' = out \o PrintAll(i, "responseBody", prb_body(data[i].response))
    /\ i' = i + 1
    /\ UNCHANGED <<tool, argc, data, opened, pc, ret, raised>>

\* returning 1 when there was no interaction
Return_emptyIs1 ==
    /\ pc = "for"
    /\ i > Len(data)
    /\ ret' = IF Len(data) = 0 THEN 1 ELSE 0
    /\ pc' = "returned"
    /\ UNCHANGED <<tool, argc, data, opened, i, out, raised>>

\* the loop is exhausted: return 0
Return ==
    /\ pc = "for"
    /\ i > Len(data)
    /\ ret' = 0
    /\ pc' = "returned"
    /\ UNCHANGED <<tool, argc, data, opened, i, out, raised>>

Next ==
    \/ Usage
    \/ Load
    \/ RequestKeyError
    \/ PrintRequest
    \/ PrintResponseLabel
    \/ PrintResponseBody
    \/ PrintBody
    \/ Return

Spec == Init /\ [][Next]_vars

TypeOK ==
    /\ tool \in Tools
    /\ argc \in {1, 2}
    /\ opened \in BOOLEAN
    /\ pc \in {"main", "for", "response", "body", "returned", "raised"}
    /\ i \in 0..(MaxInteractions + 2)
    /\ ret \in {NoRet, 0, 1}
    /\ raised \in {"", "KeyError"}

(***************************************************************************)
(* What the properties below speak of                                      *)
(***************************************************************************)
Interactions == 1..Len(data)

\* the response part of interaction k has been printed
Processed(k) == opened /\ k \in Interactions /\ k < i

\* print_bodies is past the request part of interaction k
RequestDone(k) ==
    /\ tool = "print_bodies"
    /\ opened
    /\ k \in Interactions
    /\ \/ k < i
       \/ k = i /\ pc \in {"response", "body"}

\* the request of interaction k is a mapping with a non-empty body
HasRequestBody(k) ==
    /\ data[k].request.present
    /\ data[k].request.hasBody
    /\ data[k].request.body # <<>>

\* the texts of the print() calls of interaction k of the given kind, in order
Texts(k, kind) ==
    LET mine(r) == r.idx = k /\ r.kind = kind
        recs == SelectSeq(out, mine)
    IN  [j \in 1..Len(recs) |-> recs[j].text]

\* the print() calls of interaction k, in order
CallsOf(k) ==
    LET mine(r) == r.idx = k
    IN  SelectSeq(out, mine)

\* the body starts with the prefix that makes the running script read it
\* as an event stream
HasPrefix(s, p) == Len(s) >= Len(p) /\ \A j \in 1..Len(p) : s[j] = p[j]

IsEventLine(line) == HasPrefix(line, <<"e", "v", "e", "n", "t", ":">>)

IsDataLine(line) == HasPrefix(line, <<"d", "a", "t", "a", ":">>)

IsStream(body) ==
    \/ IsDataLine(body)
    \/ tool = "print_bodies" /\ IsEventLine(body)

IsJson(s) == json_loads(s).ok

\* the 2-space-indented serialization of the JSON value of s
Pretty(s) == json_dumps(json_loads(s).v)

\* what JSON-parse-or-print-raw prints for s
JsonOrRaw(s) == IF IsJson(s) THEN Pretty(s) ELSE s

\* a line without its leading "data:" (5 characters), trimmed
Payload(line) ==
    strip(IF IsDataLine(line) THEN SubSeq(line, 5 + 1, Len(line)) ELSE line)

\* the payloads of the lines of body that are not empty after stripping
\* "data:" and trimming
Payloads(body) ==
    LET lines == split(body)
        nonEmpty(l) == Payload(l) # <<>>
        kept == SelectSeq(lines, nonEmpty)
    IN  [j \in 1..Len(kept) |-> Payload(kept[j])]

\* the same, leaving out the lines print_bodies skips for their "event:"
PayloadsShown(body) ==
    LET lines == split(body)
        shown(l) ==
            /\ Payload(l) # <<>>
            /\ ~(tool = "print_bodies" /\ IsEventLine(l))
        kept == SelectSeq(lines, shown)
    IN  [j \in 1..Len(kept) |-> Payload(kept[j])]

(***************************************************************************)
(* C1                                                                      *)
(***************************************************************************)
\* C1: in both scripts, a response body that does not start with the
\* event-stream prefix and is valid JSON is printed as the 2-space-indented
\* serialization of its value (which parses back to the same value), not as
\* the raw body.  print_response_body prints such a body raw.
C1_PlainJsonIsPrettyPrinted ==
    \A k \in Interactions :
        LET body == data[k].response
        IN  (Processed(k) /\ ~IsStream(body) /\ IsJson(body)) =>
                /\ Texts(k, "responseBody") = <<Pretty(body)>>
                /\ json_loads(Texts(k, "responseBody")[1]).v = json_loads(body).v

(***************************************************************************)
(* C2                                                                      *)
(***************************************************************************)
\* C2 as stated: print_bodies prints a present, non-empty request body, after
\* the "Request:" label, through the decoder of response bodies (a body
\* starting with data: or event: is split into lines, event: lines skipped,
\* data: stripped, empty lines skipped, each line JSON-or-raw).
C2_RequestThroughLineDecoder ==
    \A k \in Interactions :
        (RequestDone(k) /\ HasRequestBody(k)) =>
            LET req == data[k].request.body
                expected == IF IsStream(req)
                            THEN [j \in 1..Len(PayloadsShown(req)) |->
                                      JsonOrRaw(PayloadsShown(req)[j])]
                            ELSE <<JsonOrRaw(req)>>
            IN  /\ Texts(k, "requestLabel") = <<RequestLabel>>
                /\ Texts(k, "requestBody") = expected

\* C2 amended: print_bodies prints a present, non-empty request body, after
\* the "Request:" label, by JSON-parse-or-print-raw on the whole body string,
\* whatever its prefix: one print() call, never split into lines.
C2_RequestWholeBody ==
    \A k \in Interactions :
        (RequestDone(k) /\ HasRequestBody(k)) =>
            LET calls == CallsOf(k)
            IN  /\ Len(calls) >= 2
                /\ calls[1] = Printed(k, "requestLabel", RequestLabel)
                /\ calls[2] = Printed(k, "requestBody", JsonOrRaw(data[k].request.body))
                /\ Texts(k, "requestLabel") = <<RequestLabel>>
                /\ Len(Texts(k, "requestBody")) = 1

\* a multi-line request body starting with data: has been printed whole
C2_Witness ==
    \E k \in Interactions :
        /\ RequestDone(k)
        /\ IsDataLine(data[k].request.body)
        /\ Len(split(data[k].request.body)) > 1
        /\ Texts(k, "requestBody") = <<data[k].request.body>>

(***************************************************************************)
(* C3                                                                      *)
(***************************************************************************)
\* C3: a JSON parse failure is never an error.  A request body, a plain
\* response body or a stream line that does not parse is printed unchanged;
\* the lines after it are still printed; nothing is raised for it and the run
\* returns 0 after the last interaction.
C3_ParseFailurePrintsRaw ==
    /\ raised # "" =>
           /\ raised = "KeyError"
           /\ i \in Interactions
           /\ ~data[i].request.present
    /\ (pc = "returned" /\ opened) => (ret = 0 /\ i = Len(data) + 1)
    /\ \A k \in Interactions :
        LET body == data[k].response
            req == data[k].request.body
        IN  /\ (RequestDone(k) /\ HasRequestBody(k) /\ ~IsJson(req)) =>
                   Texts(k, "requestBody") = <<req>>
            /\ (Processed(k) /\ ~IsStream(body) /\ ~IsJson(body)) =>
                   Texts(k, "responseBody") = <<body>>
            /\ (Processed(k) /\ IsStream(body)) =>
                   LET shown == PayloadsShown(body)
                       texts == Texts(k, "responseBody")
                   IN  /\ Len(texts) = Len(shown)
                       /\ \A j \in 1..Len(shown) :
                              ~IsJson(shown[j]) => texts[j] = shown[j]

\* a run returned 0 after a stream whose first shown line does not parse and
\* whose second does
C3_Witness ==
    /\ pc = "returned"
    /\ ret = 0
    /\ \E k \in Interactions :
        LET shown == PayloadsShown(data[k].response)
        IN  /\ IsStream(data[k].response)
            /\ Len(shown) = 2
            /\ ~IsJson(shown[1])
            /\ IsJson(shown[2])
            /\ Texts(k, "responseBody") = <<shown[1], Pretty(shown[2])>>

(***************************************************************************)
(* C4                                                                      *)
(***************************************************************************)
\* C4 as stated: for a response body read as an event stream the output is
\* exactly one block per line that is non-empty after stripping a leading
\* data: (5 characters) and trimming, in the order of the lines.
C4_OneBlockPerNonEmptyLine ==
    \A k \in Interactions :
        (Processed(k) /\ IsStream(data[k].response)) =>
            Texts(k, "responseBody") =
                [j \in 1..Len(Payloads(data[k].response)) |->
                     JsonOrRaw(Payloads(data[k].response)[j])]

\* C4 amended: ... exactly one block per line that (in print_bodies) does not
\* begin with event: and is non-empty after stripping a leading data:
\* (5 characters) and trimming, in the order of the lines; the other lines
\* produce no print() call at all.
C4_OneBlockPerShownLine ==
    \A k \in Interactions :
        (Processed(k) /\ IsStream(data[k].response)) =>
            /\ Texts(k, "responseBody") =
                   [j \in 1..Len(PayloadsShown(data[k].response)) |->
                        JsonOrRaw(PayloadsShown(data[k].response)[j])]
            /\ \A j \in 1..Len(Texts(k, "responseBody")) :
                   Texts(k, "responseBody")[j] # <<>>

\* "data: {"a":1}\ndata: {"b":2}\n" gave two pretty-printed blocks in that
\* order and nothing for the empty last line
C4_Witness ==
    \E k \in Interactions :
        /\ Processed(k)
        /\ data[k].response =
               DATA \o <<" ">> \o ObjA \o <<"\n">> \o DATA \o <<" ">> \o ObjB \o <<"\n">>
        /\ Len(split(data[k].response)) = 3
        /\ Texts(k, "responseBody") = <<Pretty(ObjA), Pretty(ObjB)>>

(***************************************************************************)
(* C5                                                                      *)
(***************************************************************************)
\* C5: in print_bodies, for an event-stream response body (starting with
\* event: or with data:), a line beginning with event: contributes nothing:
\* there are as many blocks as shown lines that are not event: lines, the
\* output is that of the body with its event: lines deleted, and every
\* non-empty data: payload is printed.
C5_EventLinesSuppressed ==
    \A k \in Interactions :
        LET body == data[k].response
            lines == split(body)
            notEvent(l) == ~IsEventLine(l)
            counted(l) == ~IsEventLine(l) /\ Payload(l) # <<>>
            texts == Texts(k, "responseBody")
        IN  (tool = "print_bodies" /\ Processed(k) /\ IsStream(body)) =>
                /\ Len(texts) = Len(SelectSeq(lines, counted))
                /\ texts = pb_lines(SelectSeq(lines, notEvent))
                /\ \A n \in 1..Len(lines) :
                       (IsDataLine(lines[n]) /\ Payload(lines[n]) # <<>>) =>
                           \E j \in 1..Len(texts) :
                               texts[j] = JsonOrRaw(Payload(lines[n]))

\* a body starting with an event: line that carries JSON, followed by a data:
\* line with a payload: one block, the data: payload
C5_Witness ==
    \E k \in Interactions :
        /\ tool = "print_bodies"
        /\ Processed(k)
        /\ data[k].response = EVENT \o ObjB \o <<"\n">> \o DATA \o <<" ">> \o ObjA
        /\ Texts(k, "responseBody") = <<Pretty(ObjA)>>

(***************************************************************************)
(* C6                                                                      *)
(***************************************************************************)
\* C6 as stated: for an interaction whose request has no body key or an
\* empty body nothing of the request is printed, and the "Response:" label
\* followed by the decoded response body is printed exactly once for every
\* interaction, in either script.
C6_ResponseLabelAlways ==
    \A k \in Interactions :
        Processed(k) =>
            /\ ~HasRequestBody(k) =>
                   (Texts(k, "requestLabel") = <<>> /\ Texts(k, "requestBody") = <<>>)
            /\ Texts(k, "responseLabel") = <<ResponseLabel>>

\* C6 amended: in print_bodies, for an interaction whose request mapping has
\* no body key or an empty body, the output of the interaction is exactly the
\* "Response:" label followed by the decoded response body, and every
\* interaction has exactly one "Response:" label, right before its response
\* body; print_response_body prints no label at all, only the decoded
\* response body, once per interaction.
C6_ResponseLabelInPrintBodies ==
    \A k \in Interactions :
        Processed(k) =>
            LET calls == CallsOf(k)
                bodyCalls == Len(Texts(k, "responseBody"))
            IN  /\ ~HasRequestBody(k) =>
                       (Texts(k, "requestLabel") = <<>> /\ Texts(k, "requestBody") = <<>>)
                /\ tool = "print_bodies" =>
                       /\ Texts(k, "responseLabel") = <<ResponseLabel>>
                       /\ calls[Len(calls) - bodyCalls].kind = "responseLabel"
                       /\ ~HasRequestBody(k) =>
                              Len(calls) = 1 + bodyCalls
                       /\ Texts(k, "responseBody") = pb_body(data[k].response)
                /\ tool = "print_response_body" =>
                       /\ Len(calls) = bodyCalls
                       /\ Texts(k, "responseBody") = prb_body(data[k].response)

\* print_bodies is past an interaction with an empty request body and one
\* without a body key
C6_Witness ==
    /\ tool = "print_bodies"
    /\ \E k, m \in Interactions :
        /\ Processed(k)
        /\ Processed(m)
        /\ data[k].request = NoBody
        /\ data[m].request = Request(TRUE, TRUE, <<>>)
        /\ Texts(k, "responseBody") # <<>>

(***************************************************************************)
(* C7                                                                      *)
(***************************************************************************)
\* C7: the request field is optional: for an interaction record without one
\* the run prints no "Request:" label, still prints the response, goes on
\* with the following interactions and completes with status 0.
\* print_bodies raises KeyError at interaction["request"] instead.
C7_RequestFieldOptional ==
    /\ raised = ""
    /\ (opened /\ pc = "returned") =>
           /\ ret = 0
           /\ \A k \in Interactions :
                  ~data[k].request.present =>
                      /\ Processed(k)
                      /\ Texts(k, "requestLabel") = <<>>
                      /\ Texts(k, "responseBody") # <<>>

(***************************************************************************)
(* C8                                                                      *)
(***************************************************************************)
\* C8: without a filename argument either script prints its usage message
\* (one print() call) and returns 1; the file is never opened and nothing is
\* printed for any interaction.
C8_UsageWithoutArgument ==
    argc < 2 =>
        /\ ~opened
        /\ raised = ""
        /\ \/ pc = "main" /\ out = <<>> /\ ret = NoRet
           \/ /\ pc = "returned"
              /\ ret = 1
              /\ Len(out) = 1
              /\ out[1].kind = "usage"
              /\ out[1].text = UsageText(tool)

\* a run without argument has returned, the file holding interactions
C8_Witness ==
    /\ argc < 2
    /\ pc = "returned"
    /\ ret = 1
    /\ Len(data) > 0

(***************************************************************************)
(* C9                                                                      *)
(***************************************************************************)
\* C9: for a file whose interactions sequence is empty the script prints
\* nothing and returns 0.
C9_EmptyFile ==
    (argc >= 2 /\ data = <<>>) =>
        /\ out = <<>>
        /\ raised = ""
        /\ pc \in {"main", "for", "returned"}
        /\ pc = "returned" => ret = 0

\* a run on an empty file has returned
C9_Witness ==
    /\ opened
    /\ data = <<>>
    /\ pc = "returned"
    /\ ret = 0
    /\ out = <<>>

(***************************************************************************)
(* C10                                                                     *)
(***************************************************************************)
Rank(kind) ==
    CASE kind = "requestLabel" -> 1
      [] kind = "requestBody" -> 2
      [] kind = "responseLabel" -> 3
      [] kind = "responseBody" -> 4
      [] OTHER -> 0

\* C10: output is one pass in file order.  Of two print() calls, the earlier
\* belongs to the same or an earlier interaction; within an interaction the
\* "Request:" label comes before the request body, that before the
\* "Response:" label, that before the response body; and 0 is returned only
\* once every interaction has been processed.
C10_LinearPass ==
    /\ \A a, b \in 1..Len(out) :
           a < b =>
               /\ out[a].idx <= out[b].idx
               /\ out[a].idx = out[b].idx => Rank(out[a].kind) <= Rank(out[b].kind)
    /\ \A a \in 1..Len(out) :
           /\ out[a].idx <= i
           /\ out[a].kind \in {"requestLabel", "responseLabel"} =>
                  \A b \in 1..Len(out) :
                      (b # a /\ out[b].idx = out[a].idx) => out[b].kind # out[a].kind
    /\ ret = 0 =>
           /\ pc = "returned"
           /\ \A k \in Interactions :
                  /\ Processed(k)
                  /\ tool = "print_bodies" => Texts(k, "responseLabel") # <<>>

\* print_bodies returned 0 after two interactions, each with a printed request
\* and a response of two blocks
C10_Witness ==
    /\ tool = "print_bodies"
    /\ ret = 0
    /\ Len(data) = 2
    /\ \A k \in Interactions :
           /\ Texts(k, "requestBody") # <<>>
           /\ Len(Texts(k, "responseBody")) = 2

====
